---- MODULE Spec2Model ----
(***************************************************************************)
(* Model of ReconocimientoFacial/face_recognition_app:                     *)
(*   face_recognition_model.py  FaceRecognitionSystem.detect_face/predict  *)
(*   views.py                   get_face_system and the six views          *)
(*                                                                         *)
(* Units.  Probabilities, thresholds and gaps are integers in percent      *)
(* (0.80 is 80), so that the comparisons of predict are exact.  Indices    *)
(* are 1-based (Python's index i is i + 1 here).  An optional value        *)
(* (Python's None) is a sequence of length 0 or 1.                         *)
(*                                                                         *)
(* The Haar cascade, FaceNet and the Keras classifier are external: the    *)
(* cascade is the list of boxes it reports for an image, the classifier    *)
(* is the vector of per-label probabilities it returns.  Nothing in the    *)
(* code normalises or validates that vector.                               *)
(***************************************************************************)
EXTENDS Integers, Sequences, FiniteSets, TLC

VARIABLES
    call,           \* arguments of the running / last call of predict: <<>> or <<record>>
    result,         \* the dict returned by that call: <<>> or <<record>>
    frame,          \* detect_face: the image (width, height, boxes the cascade reports)
    detection,      \* detect_face: what it returned: <<>> (not called yet) or <<record>>
    face_system,    \* views.face_system: 0 is None, k > 0 the k-th instance constructed
    loaded,         \* number of FaceRecognitionSystem constructions that completed
    session,        \* request.session of the one browser session
    response,       \* the last response sent
    loginDecision,  \* history: the last decision since the last logout that warrants a login
    pc,             \* per worker thread: where it is in an API view
    view,           \* per worker thread: the API view it runs
    system          \* per worker thread: the value get_face_system returned (0: none yet)

vars == <<call, result, frame, detection, face_system, loaded, session, response,
          loginDecision, pc, view, system>>

-----------------------------------------------------------------------------
(* Bounds of the model *)

MaxLabels == 4      \* predict is explored for 1..MaxLabels labels
MaxFaces == 2       \* detect_face is explored for 0..MaxFaces reported boxes
MaxDim == 43        \* the largest frame side: room for a box with both paddings inside
NumThreads == 2     \* worker threads serving API requests concurrently

(* Program constants, in percent or pixels *)

padding == 20
TOP_K == 3
DEFAULT_MIN_CONFIDENCE_GAP == 20
LOGIN_THRESHOLD == 80
LOGIN_MIN_CONFIDENCE_GAP == 20
VERIFY_THRESHOLD == 75

\* Probabilities the classifier may report for a label: around both thresholds
\* (75, 80) and with differences below, at and above the gap (5, 15, 20, 35, ...).
ProbValues == {10, 60, 75, 80, 95}

\* threshold / min_confidence_gap arguments tried on predict, in and out of [0, 100]
ThresholdValues == {-10, 75, 80, 110}
GapValues == {-10, 20, 110}

\* label_encoder.classes_ (sklearn keeps them sorted); the first n are used for n labels
LabelUniverse == <<"Ana", "Desconocido", "Luis", "Marta", "Pedro", "Rosa">>
Classes(n) == SubSeq(LabelUniverse, 1, n)

None == <<>>
Some(v) == <<v>>

Max2(a, b) == IF a >= b THEN a ELSE b
Min2(a, b) == IF a <= b THEN a ELSE b

-----------------------------------------------------------------------------
(* FaceRecognitionSystem.detect_face *)

Area(face) == face.w * face.h

\* max(faces, key=lambda face: face[2] * face[3]): the first box of maximal area
LargestFace(faces) ==
    faces[CHOOSE i \in 1..Len(faces) :
            /\ \A j \in 1..Len(faces) : Area(faces[j]) <= Area(faces[i])
            /\ \A j \in 1..(i - 1) : Area(faces[j]) < Area(faces[i])]

CropRegionUnclampedEnd(height, width, box) ==
    [top    |-> Max2(0, box.y - padding),
     left   |-> Max2(0, box.x - padding),
     bottom |-> box.y + box.h + padding,
     right  |-> box.x + box.w + padding]

\* top/left/bottom/right of img_rgb[top:bottom, left:right]
CropRegion(height, width, box) ==
    [top    |-> Max2(0, box.y - padding),
     left   |-> Max2(0, box.x - padding),
     bottom |-> Min2(height, box.y + box.h + padding),
     right  |-> Min2(width, box.x + box.w + padding)]

\* (None, None) is <<>>; otherwise the crop region (resized to 160x160 by cv2) and the box
detect_face(image) ==
    IF Len(image.faces) = 0
    THEN None
    ELSE LET box == LargestFace(image.faces)
         IN  Some([crop |-> CropRegion(image.height, image.width, box), face_box |-> box])

-----------------------------------------------------------------------------
(* FaceRecognitionSystem.predict *)

\* np.argsort(prediction): default kind 'quicksort' is not stable, so every ascending
\* arrangement of the indices is a possible outcome; equal values come in any order.
MinIdx(p, S) == {i \in S : \A j \in S : p[i] <= p[j]}

RECURSIVE ArgsortFrom(_, _)
ArgsortFrom(p, S) ==
    IF S = {}
    THEN {<<>>}
    ELSE UNION {{<<i>> \o s : s \in ArgsortFrom(p, S \ {i})} : i \in MinIdx(p, S)}

argsort(p) == ArgsortFrom(p, DOMAIN p)

Reverse(s) == [i \in 1..Len(s) |-> s[Len(s) + 1 - i]]

\* s[-k:]
LastK(s, k) == SubSeq(s, Max2(1, Len(s) - k + 1), Len(s))

Top3Ascending(order) == LastK(order, TOP_K)

\* np.argsort(prediction)[-3:][::-1]
Top3Indices(order) == Reverse(LastK(order, TOP_K))

TopPredictions(classes, prediction, top) ==
    [k \in 1..Len(top) |-> [class |-> classes[top[k]], confidence |-> prediction[top[k]]]]

ConfidenceGapToLast(prediction, top) ==
    IF Len(top) > 1
    THEN prediction[top[1]] - prediction[top[Len(top)]]
    ELSE prediction[top[1]]

ConfidenceGap(prediction, top) ==
    IF Len(top) > 1
    THEN prediction[top[1]] - prediction[top[2]]
    ELSE prediction[top[1]]

\* f'confidence_too_low_{confidence:.2%}<{threshold:.0%}': the text is kept as its parts
Reason(kind, observed, required) == <<kind, observed, required>>
Marker(kind) == <<kind>>

RejectionReasonsElif(confidence, gap, threshold, min_confidence_gap) ==
    IF confidence < threshold
    THEN <<Reason("confidence_too_low", confidence, threshold)>>
    ELSE IF gap < min_confidence_gap
         THEN <<Reason("gap_too_small", gap, min_confidence_gap)>>
         ELSE <<>>

RejectionReasons(confidence, gap, threshold, min_confidence_gap) ==
    (IF confidence < threshold
     THEN <<Reason("confidence_too_low", confidence, threshold)>>
     ELSE <<>>)
    \o
    (IF gap < min_confidence_gap
     THEN <<Reason("gap_too_small", gap, min_confidence_gap)>>
     ELSE <<>>)

FinalReasonsKept(authorized, reasons) == reasons

\* rejection_reasons = ['authorized'] on the authorized branch
FinalReasons(authorized, reasons) ==
    IF authorized THEN <<Marker("authorized")>> ELSE reasons

NoFaceDecision ==
    [name              |-> "No se detectó rostro",
     confidence        |-> 0,
     confidence_gap    |-> 0,
     face_detected     |-> FALSE,
     face_box          |-> None,
     authorized        |-> FALSE,
     top_predictions   |-> <<>>,
     rejection_reasons |-> <<Marker("no_face_detected")>>]

\* predict(image, threshold, min_confidence_gap) on an instance whose label encoder holds
\* `classes`; `prediction` is what the classifier returns for the face and `order` what
\* np.argsort returns for it.
predict(classes, image, prediction, order, threshold, min_confidence_gap) ==
    LET found == detect_face(image)
    IN  IF found = None
        THEN NoFaceDecision
        ELSE LET top             == Top3Indices(order)
                 predicted_class == top[1]
                 confidence      == prediction[predicted_class]
                 gap             == ConfidenceGap(prediction, top)
                 reasons         == RejectionReasons(confidence, gap, threshold,
                                                     min_confidence_gap)
                 authorized      == Len(reasons) = 0
             IN  [name              |-> IF authorized THEN classes[predicted_class]
                                                      ELSE "Desconocido",
                  confidence        |-> confidence,
                  confidence_gap    |-> gap,
                  face_detected     |-> TRUE,
                  face_box          |-> Some(found[1].face_box),
                  authorized        |-> authorized,
                  top_predictions   |-> TopPredictions(classes, prediction, top),
                  rejection_reasons |-> FinalReasons(authorized, reasons)]

\* The arguments of one call, as kept in `call`
Call(image, prediction, threshold, min_confidence_gap) ==
    [image |-> image, prediction |-> prediction, threshold |-> threshold,
     min_confidence_gap |-> min_confidence_gap]

\* Sequences of length n over S
Vectors(S, n) == [1..n -> S]

\* What the classifier can return for an image on an instance with n labels; it is
\* not invoked (<<>>) when detect_face finds no face.
ClassifierOutputs(image, values, n) ==
    IF detect_face(image) = None THEN {<<>>} ELSE Vectors(values, n)

-----------------------------------------------------------------------------
(* Images *)

NoFaceImage == [width |-> MaxDim, height |-> MaxDim, faces |-> <<>>]
OneFaceImage ==
    [width |-> MaxDim, height |-> MaxDim,
     faces |-> <<[x |-> padding + 1, y |-> 0, w |-> MaxDim - padding - 1, h |-> padding]>>]

\* Images sent to predict: one without and one with a face
RequestImages == {NoFaceImage, OneFaceImage}

\* Distances of a box from the frame's edges: at the edge, exactly the padding, beyond it
Offsets == {0, padding, padding + 1}
FrameDims == {padding, MaxDim}

\* Boxes lying within a width x height frame (what detectMultiScale reports)
Boxes(width, height) ==
    {[x |-> x, y |-> y, w |-> width - x - r, h |-> height - y - b] :
        <<x, r, y, b>> \in {q \in Offsets \X Offsets \X Offsets \X Offsets :
                                /\ width - q[1] - q[2] >= 1
                                /\ height - q[3] - q[4] >= 1}}

-----------------------------------------------------------------------------
(* views.py: the session, get_face_system and the views *)

\* The label encoder loaded from label_encoder.pkl by every instance: three labels, one
\* of them a class that is itself called 'Desconocido'
WebClasses == <<"Ana", "Desconocido", "Luis">>

Threads == 1..NumThreads

\* request.session: the keys present and their values ("" / FALSE where absent)
EmptySession == [keys |-> {}, authenticated |-> FALSE, user_name |-> "", login_time |-> ""]

\* request.session.get(key, default)
SessionGet(s, key, default) == IF key \in s.keys THEN s[key] ELSE default

\* datetime.now().strftime('%Y-%m-%d %H:%M:%S'): the wall clock is not modelled
LoginTime == "%Y-%m-%d %H:%M:%S"

Response(v, status, content) == Some([view |-> v, status |-> status, content |-> content])

\* What a POST to an API view can carry / run into, in the order the view meets it:
\*   bad_json      json.loads (or data.get) raises
\*   no_image      'image' missing or empty
\*   bad_base64    base64.b64decode raises
\*   undecodable   cv2.imdecode returns None
\*   predict_fails detect_face, FaceNet or the classifier raises inside predict
\*   decoded       an image reaches predict and predict returns
Outcomes == {"bad_json", "no_image", "bad_base64", "undecodable", "predict_fails", "decoded"}

ErrorResponse(v, outcome) ==
    CASE outcome = "no_image" ->
            Response(v, 400, [success |-> FALSE, error |-> "No se recibió imagen"])
      [] outcome = "undecodable" ->
            Response(v, 400, [success |-> FALSE, error |-> "No se pudo decodificar la imagen"])
      [] OTHER ->
            Response(v, 500, [success |-> FALSE, error |-> outcome])

\* system.predict(image, threshold=0.80, min_confidence_gap=0.20)
LoginPredict(image, prediction, order) ==
    predict(WebClasses, image, prediction, order, LOGIN_THRESHOLD, LOGIN_MIN_CONFIDENCE_GAP)

VerifyPredictNoGap(image, prediction, order) ==
    predict(WebClasses, image, prediction, order, VERIFY_THRESHOLD, 0)

\* system.predict(image, threshold=0.75): min_confidence_gap keeps its default
VerifyPredict(image, prediction, order) ==
    predict(WebClasses, image, prediction, order, VERIFY_THRESHOLD,
            DEFAULT_MIN_CONFIDENCE_GAP)

CreatesSessionWhenNamed(r) == r.name # "Desconocido"

\* if result['authorized'] and result['name'] != 'Desconocido'
CreatesSession(r) == r.authorized /\ r.name # "Desconocido"

\* History: what is remembered of a decision
Summary(r) ==
    [top1 |-> r.top_predictions[1].class, name |-> r.name, confidence |-> r.confidence,
     confidence_gap |-> r.confidence_gap, face_detected |-> r.face_detected,
     authorized |-> r.authorized]

\* History: a decision of recognize_face that is authorized under a name other than
\* 'Desconocido' is remembered until the next logout.
Remember(r) ==
    loginDecision' = IF r.authorized /\ r.name # "Desconocido"
                     THEN Some(Summary(r))
                     ELSE loginDecision

\* recognize_face from `data = json.loads(request.body)` on
RecognizeBody(outcome, image, prediction, order) ==
    IF outcome # "decoded"
    THEN /\ response' = ErrorResponse("recognize_face", outcome)
         /\ call' = None
         /\ result' = None
         /\ UNCHANGED <<session, loginDecision>>
    ELSE LET r == LoginPredict(image, prediction, order)
         IN  /\ call' = Some(Call(image, prediction, LOGIN_THRESHOLD,
                                  LOGIN_MIN_CONFIDENCE_GAP))
             /\ result' = Some(r)
             /\ Remember(r)
             /\ IF CreatesSession(r)
                THEN /\ session' = [keys |-> session.keys \cup
                                        {"authenticated", "user_name", "login_time"},
                                    authenticated |-> TRUE,
                                    user_name |-> r.name,
                                    login_time |-> LoginTime]
                     /\ response' = Response("recognize_face", 200,
                            [success |-> TRUE, authorized |-> TRUE, name |-> r.name,
                             confidence |-> r.confidence,
                             confidence_gap |-> r.confidence_gap,
                             top_predictions |-> r.top_predictions,
                             rejection_reasons |-> r.rejection_reasons,
                             message |-> <<"¡Bienvenido/a ", r.name, "!">>])
                ELSE /\ UNCHANGED session
                     /\ response' = Response("recognize_face", 200,
                            [success |-> TRUE, authorized |-> FALSE, name |-> r.name,
                             confidence |-> r.confidence,
                             confidence_gap |-> r.confidence_gap,
                             top_predictions |-> r.top_predictions,
                             rejection_reasons |-> r.rejection_reasons,
                             message |-> <<"Acceso denegado. Persona no reconocida.">>])

\* verify_face_stream from `data = json.loads(request.body)` on
VerifyBody(outcome, image, prediction, order) ==
    /\ UNCHANGED <<session, loginDecision>>
    /\ IF outcome # "decoded"
       THEN /\ response' = ErrorResponse("verify_face_stream", outcome)
            /\ call' = None
            /\ result' = None
       ELSE LET r == VerifyPredict(image, prediction, order)
            IN  /\ call' = Some(Call(image, prediction, VERIFY_THRESHOLD,
                                     DEFAULT_MIN_CONFIDENCE_GAP))
                /\ result' = Some(r)
                /\ response' = Response("verify_face_stream", 200,
                        [success |-> TRUE, name |-> r.name, confidence |-> r.confidence,
                         authorized |-> r.authorized, face_detected |-> r.face_detected])

\* `except Exception as e` of an API view when get_face_system raises
InitFailed(v) ==
    /\ response' = Response(v, 500, [success |-> FALSE, error |-> "init_failed"])
    /\ call' = None
    /\ result' = None
    /\ UNCHANGED <<session, loginDecision>>

\* get_face_system run without interruption: what it can return (0: it raised, which
\* the constructor may do when it is run) and the globals it leaves.
get_face_system ==
    IF face_system # 0
    THEN {[returned |-> face_system, face_system |-> face_system, loaded |-> loaded]}
    ELSE {[returned |-> loaded + 1, face_system |-> loaded + 1, loaded |-> loaded + 1],
          [returned |-> 0, face_system |-> 0, loaded |-> loaded]}

threadVars == <<pc, view, system>>
pureVars == <<frame, detection>>

\* The rest of an API view once get_face_system has returned
ApiBody(v) ==
    \/ \E outcome \in Outcomes \ {"decoded"} :
          IF v = "recognize_face"
          THEN RecognizeBody(outcome, NoFaceImage, <<>>, <<>>)
          ELSE VerifyBody(outcome, NoFaceImage, <<>>, <<>>)
    \/ \E image \in RequestImages :
          \E prediction \in ClassifierOutputs(image, ProbValues, Len(WebClasses)) :
            \E order \in argsort(prediction) :
               IF v = "recognize_face"
               THEN RecognizeBody("decoded", image, prediction, order)
               ELSE VerifyBody("decoded", image, prediction, order)

\* An API view served from start to end by one thread
ServeApi(v) ==
    \E got \in get_face_system :
        /\ face_system' = got.face_system
        /\ loaded' = got.loaded
        /\ IF got.returned = 0 THEN InitFailed(v) ELSE ApiBody(v)
        /\ UNCHANGED <<threadVars, pureVars>>

\* The browser sends its next request once the previous response has arrived
Ready == response = None

recognize_face == Ready /\ ServeApi("recognize_face")

verify_face_stream == Ready /\ ServeApi("verify_face_stream")

NoPredict == call' = None /\ result' = None

\* The response reaches the browser; the request and its decision are over
Deliver ==
    /\ response # None
    /\ response' = None
    /\ NoPredict
    /\ UNCHANGED <<session, loginDecision, face_system, loaded, threadVars, pureVars>>

index ==
    /\ Ready
    /\ response' = IF SessionGet(session, "authenticated", FALSE)
                   THEN Response("index", 302, [redirect |-> "dashboard"])
                   ELSE Response("index", 200, [template |-> "login.html"])
    /\ NoPredict
    /\ UNCHANGED <<session, loginDecision, face_system, loaded, threadVars, pureVars>>

dashboard ==
    /\ Ready
    /\ response' = IF ~SessionGet(session, "authenticated", FALSE)
                   THEN Response("dashboard", 302, [redirect |-> "index"])
                   ELSE Response("dashboard", 200,
                            [template |-> "dashboard.html",
                             user_name |-> SessionGet(session, "user_name", "Usuario"),
                             login_time |-> SessionGet(session, "login_time", "")])
    /\ NoPredict
    /\ UNCHANGED <<session, loginDecision, face_system, loaded, threadVars, pureVars>>

logout_view ==
    /\ Ready
    /\ session' = EmptySession
    /\ loginDecision' = None
    /\ response' = Response("logout", 302, [redirect |-> "index"])
    /\ NoPredict
    /\ UNCHANGED <<face_system, loaded, threadVars, pureVars>>

check_session ==
    /\ Ready
    /\ response' = Response("check_session", 200,
                        [authenticated |-> SessionGet(session, "authenticated", FALSE),
                         user_name |-> SessionGet(session, "user_name", "")])
    /\ NoPredict
    /\ UNCHANGED <<session, loginDecision, face_system, loaded, threadVars, pureVars>>

-----------------------------------------------------------------------------
(* Specification of detect_face alone: every image, one call *)

WebIdle ==
    /\ face_system = 0
    /\ loaded = 0
    /\ session = EmptySession
    /\ response = None
    /\ loginDecision = None
    /\ pc = [t \in Threads |-> "idle"]
    /\ view = [t \in Threads |-> ""]
    /\ system = [t \in Threads |-> 0]

webVars == <<face_system, loaded, session, response, loginDecision, pc, view, system>>

InitDetect ==
    /\ \E W \in FrameDims, H \in FrameDims, n \in 0..MaxFaces :
         \E faces \in Vectors(Boxes(W, H), n) :
            frame = [width |-> W, height |-> H, faces |-> faces]
    /\ detection = None
    /\ call = None
    /\ result = None
    /\ WebIdle

DetectFace ==
    /\ detection = None
    /\ detection' = Some(detect_face(frame))
    /\ UNCHANGED <<frame, call, result, webVars>>

NextDetect == DetectFace

SpecDetect == InitDetect /\ [][NextDetect]_vars

-----------------------------------------------------------------------------
(* Specification of predict alone: every image, classifier output, threshold and gap *)

InitPredict ==
    /\ \E image \in RequestImages, n \in 1..MaxLabels :
         \E prediction \in ClassifierOutputs(image, ProbValues, n) :
           \E threshold \in ThresholdValues, min_confidence_gap \in GapValues :
             call = Some(Call(image, prediction, threshold, min_confidence_gap))
    /\ result = None
    /\ frame = NoFaceImage
    /\ detection = None
    /\ WebIdle

Predict ==
    /\ call # None
    /\ result = None
    /\ \E order \in argsort(call[1].prediction) :
         result' = Some(predict(Classes(Len(call[1].prediction)), call[1].image,
                                call[1].prediction, order, call[1].threshold,
                                call[1].min_confidence_gap))
    /\ UNCHANGED <<call, frame, detection, webVars>>

NextPredict == Predict

SpecPredict == InitPredict /\ [][NextPredict]_vars

-----------------------------------------------------------------------------
(* Specification of the application: requests on one session, served one at a time *)

Init ==
    /\ WebIdle
    /\ call = None
    /\ result = None
    /\ frame = NoFaceImage
    /\ detection = None

Next ==
    \/ index
    \/ dashboard
    \/ logout_view
    \/ check_session
    \/ recognize_face
    \/ verify_face_stream
    \/ Deliver

Spec == Init /\ [][Next]_vars

-----------------------------------------------------------------------------
(* Specification of the application served by concurrent worker threads: an API view  *)
(* runs get_face_system step by step (no lock protects the global face_system), then  *)
(* the rest of the view.                                                              *)

ApiViews == {"recognize_face", "verify_face_stream"}

\* A thread picks up a POST to an API view and enters get_face_system
Request(t) ==
    /\ pc[t] = "idle"
    /\ \E v \in ApiViews : view' = [view EXCEPT ![t] = v]
    /\ pc' = [pc EXCEPT ![t] = "check"]
    /\ UNCHANGED <<call, result, session, response, loginDecision, face_system, loaded,
                   system, pureVars>>

\* if face_system is None:
CheckNone(t) ==
    /\ pc[t] = "check"
    /\ pc' = [pc EXCEPT ![t] = IF face_system = 0 THEN "construct" ELSE "return"]
    /\ UNCHANGED <<call, result, session, response, loginDecision, face_system, loaded,
                   view, system, pureVars>>

\* face_system = FaceRecognitionSystem(...): the models are loaded and the global is bound
Construct(t) ==
    /\ pc[t] = "construct"
    /\ loaded' = loaded + 1
    /\ face_system' = loaded + 1
    /\ pc' = [pc EXCEPT ![t] = "return"]
    /\ UNCHANGED <<call, result, session, response, loginDecision, view, system, pureVars>>

\* The constructor raises: get_face_system re-raises and the view answers 500
ConstructFails(t) ==
    /\ pc[t] = "construct"
    /\ Ready
    /\ InitFailed(view[t])
    /\ pc' = [pc EXCEPT ![t] = "idle"]
    /\ UNCHANGED <<face_system, loaded, view, system, pureVars>>

\* return face_system
Return(t) ==
    /\ pc[t] = "return"
    /\ system' = [system EXCEPT ![t] = face_system]
    /\ pc' = [pc EXCEPT ![t] = "body"]
    /\ UNCHANGED <<call, result, session, response, loginDecision, face_system, loaded,
                   view, pureVars>>

\* The rest of the view, on the instance the thread was given
Body(t) ==
    /\ pc[t] = "body"
    /\ Ready
    /\ ApiBody(view[t])
    /\ pc' = [pc EXCEPT ![t] = "idle"]
    /\ system' = [system EXCEPT ![t] = 0]
    /\ UNCHANGED <<face_system, loaded, view, pureVars>>

NextThreads ==
    \/ \E t \in Threads : Request(t)
    \/ \E t \in Threads : CheckNone(t)
    \/ \E t \in Threads : Construct(t)
    \/ \E t \in Threads : ConstructFails(t)
    \/ \E t \in Threads : Return(t)
    \/ \E t \in Threads : Body(t)
    \/ index
    \/ dashboard
    \/ logout_view
    \/ check_session
    \/ Deliver

SpecThreads == Init /\ [][NextThreads]_vars

-----------------------------------------------------------------------------
(* Properties of predict, checked under SpecPredict *)

Returned == result # None
FaceFound == result # None /\ result[1].face_detected
NumLabels == Len(call[1].prediction)

HasReason(r, kind) ==
    \E i \in 1..Len(r.rejection_reasons) : r.rejection_reasons[i][1] = kind

\* The index of a label in the label set (its registration order)
LabelIndex(classes, label) == CHOOSE k \in 1..Len(classes) : classes[k] = label

MaxProb(p) == CHOOSE m \in {p[i] : i \in DOMAIN p} : \A i \in DOMAIN p : p[i] <= m

\* C1: for every decision predict returns, authorized is true exactly when
\* rejection_reasons is the one-element list ['authorized']; otherwise authorized is
\* false and rejection_reasons has 1 or 2 entries, none of them 'authorized'.
C1_AuthorizedIffSentinel ==
    Returned =>
        LET r == result[1]
        IN  /\ r.authorized <=> (r.rejection_reasons = <<Marker("authorized")>>)
            /\ ~r.authorized =>
                  /\ Len(r.rejection_reasons) \in {1, 2}
                  /\ ~HasReason(r, "authorized")

\* C1 witness: an authorized decision (its reasons are the sentinel alone)
C1_Witness ==
    /\ FaceFound
    /\ result[1].authorized
    /\ Len(result[1].rejection_reasons) = 1

\* C2: with a face detected the two checks are independent: the confidence reason is
\* present exactly when confidence < threshold, the gap reason exactly when
\* confidence_gap < min_confidence_gap, the confidence reason comes first when both
\* fire, and a small gap with sufficient confidence gives exactly the gap reason.
C2_ChecksIndependent ==
    FaceFound =>
        LET r   == result[1]
            low == r.confidence < call[1].threshold
            gap == r.confidence_gap < call[1].min_confidence_gap
        IN  /\ HasReason(r, "confidence_too_low") <=> low
            /\ HasReason(r, "gap_too_small") <=> gap
            /\ (low /\ gap) =>
                  /\ Len(r.rejection_reasons) = 2
                  /\ r.rejection_reasons[1][1] = "confidence_too_low"
                  /\ r.rejection_reasons[2][1] = "gap_too_small"
            /\ (gap /\ ~low) =>
                  /\ ~r.authorized
                  /\ Len(r.rejection_reasons) = 1
                  /\ r.rejection_reasons[1][1] = "gap_too_small"

\* C2 witness: both checks fire on one decision
C2_Witness ==
    /\ FaceFound
    /\ result[1].confidence < call[1].threshold
    /\ result[1].confidence_gap < call[1].min_confidence_gap
    /\ call[1].threshold \in 0..100
    /\ call[1].min_confidence_gap \in 0..100

\* C3: ties are broken by registration order: of two labels of equal probability the
\* one with the lower class index is ranked first in top_predictions, and among the
\* labels of maximal probability the earliest registered is top1 (stated for calls
\* with threshold and gap within [0, 1]).
C3_TiesByRegistrationOrder ==
    (/\ FaceFound
     /\ call[1].threshold \in 0..100
     /\ call[1].min_confidence_gap \in 0..100) =>
        LET r       == result[1]
            classes == Classes(NumLabels)
            top     == r.top_predictions
        IN  /\ \A i, j \in 1..Len(top) :
                  (i < j /\ top[i].confidence = top[j].confidence) =>
                      LabelIndex(classes, top[i].class) < LabelIndex(classes, top[j].class)
            /\ \A k \in 1..NumLabels :
                  call[1].prediction[k] = MaxProb(call[1].prediction) =>
                      LabelIndex(classes, top[1].class) <= k

\* C5: no decision is ever produced under a threshold or min_confidence_gap outside
\* [0, 1] (an invalid configuration is rejected before any request is served).
C5_NoDecisionOutOfRange ==
    Returned =>
        /\ call[1].threshold \in 0..100
        /\ call[1].min_confidence_gap \in 0..100

\* C7: for n >= 1 labels top_predictions has length min(3, n), its confidences are in
\* non-increasing order, and its first entry is a label of maximum probability.
C7_TopPredictionsRanked ==
    FaceFound =>
        LET top     == result[1].top_predictions
            classes == Classes(NumLabels)
        IN  /\ Len(top) = Min2(3, NumLabels)
            /\ \A i \in 1..(Len(top) - 1) : top[i].confidence >= top[i + 1].confidence
            /\ top[1].confidence = MaxProb(call[1].prediction)
            /\ call[1].prediction[LabelIndex(classes, top[1].class)]
                    = MaxProb(call[1].prediction)

\* C7 witness: more than three labels, three of them ranked, with distinct confidences
C7_Witness ==
    /\ FaceFound
    /\ NumLabels > 3
    /\ Len(result[1].top_predictions) = 3
    /\ result[1].top_predictions[1].confidence > result[1].top_predictions[2].confidence
    /\ result[1].top_predictions[2].confidence > result[1].top_predictions[3].confidence

\* C8: confidence is the probability of the top-ranked label, confidence_gap is
\* confidence minus the probability of the second-ranked label and is never negative;
\* with a single label confidence_gap equals confidence.
C8_ConfidenceAndGap ==
    FaceFound =>
        LET r       == result[1]
            top     == r.top_predictions
            classes == Classes(NumLabels)
            prob(k) == call[1].prediction[LabelIndex(classes, top[k].class)]
        IN  /\ r.confidence = prob(1)
            /\ NumLabels >= 2 => r.confidence_gap = r.confidence - prob(2)
            /\ NumLabels = 1 => r.confidence_gap = r.confidence
            /\ r.confidence_gap >= 0

\* C8 witness: second and third rank differ, and the gap is the distance to the second
C8_Witness ==
    /\ FaceFound
    /\ NumLabels >= 3
    /\ result[1].top_predictions[2].confidence > result[1].top_predictions[3].confidence
    /\ result[1].confidence_gap > 0

-----------------------------------------------------------------------------
(* Properties of detect_face, checked under SpecDetect *)

Cropped == detection # None /\ detection[1] # None

\* C9 as stated: every coordinate of the crop region, right and bottom included, is
\* below the frame dimension, with 0 <= left < right and 0 <= top < bottom.
C9_CropCoordinatesBelowDimension ==
    Cropped =>
        LET c == detection[1][1].crop
        IN  /\ 0 <= c.left /\ c.left < c.right /\ c.right < frame.width
            /\ 0 <= c.top /\ c.top < c.bottom /\ c.bottom < frame.height

\* C9 amended: 0 <= left < right <= width and 0 <= top < bottom <= height; right and
\* bottom are the exclusive ends of the slice, so every pixel read lies in
\* [0, dimension) and the crop is never empty.
C9_CropWithinFrame ==
    Cropped =>
        LET c == detection[1][1].crop
        IN  /\ 0 <= c.left /\ c.left < c.right /\ c.right <= frame.width
            /\ 0 <= c.top /\ c.top < c.bottom /\ c.bottom <= frame.height
            /\ \A px \in c.left..(c.right - 1) : px \in 0..(frame.width - 1)
            /\ \A py \in c.top..(c.bottom - 1) : py \in 0..(frame.height - 1)

\* C9 witness: a box whose padding crosses the right and the top edge of the frame
C9_Witness ==
    /\ Cropped
    /\ detection[1][1].face_box.x + detection[1][1].face_box.w + padding > frame.width
    /\ detection[1][1].face_box.y - padding < 0
    /\ detection[1][1].crop.right = frame.width
    /\ detection[1][1].crop.top = 0

-----------------------------------------------------------------------------
(* Properties of the views *)

Decided(v) ==
    /\ response # None
    /\ response[1].view = v
    /\ response[1].status = 200
    /\ result # None

\* C4 as stated: verify_face_stream applies threshold 0.75 without the gap check (a
\* detected face with confidence >= 0.75 is reported authorized whatever its gap);
\* recognize_face applies threshold 0.80 and minimum gap 0.20.
C4_VerifyWithoutGapCheck ==
    /\ Decided("verify_face_stream") =>
          ((result[1].face_detected /\ result[1].confidence >= 75)
              => response[1].content.authorized)
    /\ Decided("recognize_face") =>
          (result[1].authorized <=>
              (result[1].face_detected /\ result[1].confidence >= 80
                  /\ result[1].confidence_gap >= 20))

\* C4 amended: verify_face_stream applies threshold 0.75 and predict's default minimum
\* gap 0.20: a frame is reported authorized exactly when a face is detected, its
\* confidence is >= 0.75 and its confidence_gap is >= 0.20; recognize_face applies
\* threshold 0.80 and minimum gap 0.20.
C4_VerifyThresholdAndDefaultGap ==
    /\ Decided("verify_face_stream") =>
          (response[1].content.authorized <=>
              (result[1].face_detected /\ result[1].confidence >= 75
                  /\ result[1].confidence_gap >= 20))
    /\ Decided("recognize_face") =>
          (result[1].authorized <=>
              (result[1].face_detected /\ result[1].confidence >= 80
                  /\ result[1].confidence_gap >= 20))

\* C4 witness: verify_face_stream authorizes a frame that recognize_face would reject
C4_Witness ==
    /\ Decided("verify_face_stream")
    /\ response[1].content.authorized
    /\ result[1].confidence < 80

\* C6: FaceRecognitionSystem is constructed at most once, and all requests that hold an
\* instance hold the same one.
C6_InitializedOnce ==
    /\ loaded <= 1
    /\ \A t1, t2 \in Threads :
          (system[t1] # 0 /\ system[t2] # 0) => system[t1] = system[t2]

Authenticated(s) == SessionGet(s, "authenticated", FALSE)

\* C10, state part: the session is authenticated only if, since the last logout, some
\* recognize_face decision was authorized (face detected, confidence >= 0.80, gap >=
\* 0.20) under a name other than 'Desconocido', and user_name is its top-1 label.
C10_SessionBackedByDecision ==
    Authenticated(session) =>
        /\ loginDecision # None
        /\ loginDecision[1].authorized
        /\ loginDecision[1].face_detected
        /\ loginDecision[1].confidence >= 80
        /\ loginDecision[1].confidence_gap >= 20
        /\ loginDecision[1].name # "Desconocido"
        /\ SessionGet(session, "user_name", "") = loginDecision[1].top1

\* C10, step part: verify_face_stream never changes the session; a recognize_face that
\* is rejected, sees no face, cannot decode or fails leaves it unchanged; logout leaves
\* it unauthenticated; the other views leave it unchanged.
C10_SessionStep ==
    /\ response' # None
    /\ response = None
    => LET v == response'[1].view
       IN  /\ v = "verify_face_stream" => session' = session
           /\ (v = "recognize_face" /\ (result' = None \/ ~result'[1].authorized))
                 => session' = session
           /\ v = "logout" => ~Authenticated(session')
           /\ v \in {"index", "dashboard", "check_session"} => session' = session

\* C10: over any sequence of requests on one session, the session is authenticated
\* only on the strength of an authorized recognize_face decision since the last logout,
\* whose top-1 label is the stored user_name; no other request creates or changes it,
\* and logout ends it.
C10_SessionOnlyByAuthorizedLogin ==
    /\ []C10_SessionBackedByDecision
    /\ [][C10_SessionStep]_vars

\* C10 witness: a logged-in session on which verify_face_stream has just rejected a frame
C10_Witness ==
    /\ Authenticated(session)
    /\ Decided("verify_face_stream")
    /\ ~result[1].authorized
    /\ loginDecision # None

====
